---- MODULE Spec2Model ----
(***************************************************************************)
(* vga.c: a VGA driver for the RP2040.  main() configures two chained DMA  *)
(* channels and three PIO state machines; DMA channel 0 streams            *)
(* vga_data_array to the TX FIFO of the rgb state machine, DMA channel 1   *)
(* rewrites channel 0's read address and restarts it.  drawPixel() is the  *)
(* only writer of vga_data_array.                                          *)
(*                                                                         *)
(* The frame of the state machine is FrameW x FrameH pixels instead of     *)
(* 640 x 350, so that a whole pass of channel 0 fits in the state space.   *)
(* drawPixel's range checks and index arithmetic are the operators         *)
(* ClampX, ClampY and PixelOf, parameterised by the three literals of the  *)
(* source (639, 349, 640); SpecPix evaluates them with the literals of the *)
(* source, Spec with the literals of the small frame.                      *)
(***************************************************************************)
EXTENDS Integers, Sequences, FiniteSets, TLC

(* ------------------------------------------------------------------ *)
(* Constants of the source                                             *)
(* ------------------------------------------------------------------ *)
H_ACTIVE == 655
V_ACTIVE == 349
RGB_ACTIVE == 639
TXCOUNT == 224000

\* the literals of drawPixel's range checks and of its index expression
X_LIMIT == 639
Y_LIMIT == 349
ROW_STRIDE == 640

hsync_sm == 0
vsync_sm == 1
rgb_sm == 2
rgb_chan_0 == 0
rgb_chan_1 == 1

\* the range of the int arguments of drawPixel
INT_MAX == (2 ^ 30) + ((2 ^ 30) - 1)
INT_MIN == (-INT_MAX) - 1

(* ------------------------------------------------------------------ *)
(* Bounds of the model                                                 *)
(* ------------------------------------------------------------------ *)
FrameW == 2
FrameH == 2
FifoDepth == 1
MaxWrites == 2

\* the small frame's counterparts of X_LIMIT, Y_LIMIT, ROW_STRIDE, TXCOUNT
FrameXLimit == FrameW - 1
FrameYLimit == FrameH - 1
FrameStride == FrameW
FrameTxCount == FrameW * FrameH

StateMachines == {hsync_sm, vsync_sm, rgb_sm}
Channels == {rgb_chan_0, rgb_chan_1}

\* arguments the application passes to drawPixel in Spec: every pixel of the
\* frame, and two points outside it that take all four range checks
XYArgs ==
    ((0 .. FrameXLimit) \X (0 .. FrameYLimit)) \cup {<<FrameW, -1>>, <<-1, FrameH>>}
ColorArgs == {21, 63, 255}

\* arguments of drawPixel in SpecPix (the frame of the source)
XArgsPix == {INT_MIN, -1, 0, 1, 638, 639, 640, 641, INT_MAX}
YArgsPix == {INT_MIN, -1, 0, 1, 348, 349, 350, 351, INT_MAX}
ColorArgsPix == {0, 63}

VARIABLES pc, vga_data_array, address_pointer, dma, txf, sm_enabled,
          sm_count, nwrites, nevents, lastRead, pix, watch

vars == <<pc, vga_data_array, address_pointer, dma, txf, sm_enabled,
          sm_count, nwrites, nevents, lastRead, pix, watch>>

(* ------------------------------------------------------------------ *)
(* drawPixel                                                           *)
(* ------------------------------------------------------------------ *)
\* a range check one past the last column: if (x > 640) x = 640;
ClampXOnePast(x, xlimit) ==
    LET x1 == IF x > xlimit + 1 THEN xlimit + 1 ELSE x
    IN  IF x1 < 0 THEN 0 ELSE x1

\* if (x > 639) x = 639; if (x < 0) x = 0;
ClampX(x, xlimit) ==
    LET x1 == IF x > xlimit THEN xlimit ELSE x
    IN  IF x1 < 0 THEN 0 ELSE x1

\* if (y < 0) y = 0; if (y > 349) y = 349;
ClampY(y, ylimit) ==
    LET y1 == IF y < 0 THEN 0 ELSE y
    IN  IF y1 > ylimit THEN ylimit ELSE y1

\* an index with the stride of the last column: (639 * y) + x
PixelOfNarrowStride(x, y, xlimit, ylimit, stride) ==
    ((stride - 1) * ClampY(y, ylimit)) + ClampX(x, xlimit)

\* int pixel = ((640 * y) + x);
PixelOf(x, y, xlimit, ylimit, stride) ==
    (stride * ClampY(y, ylimit)) + ClampX(x, xlimit)

\* a conversion that masks the colour to its 6 bits: color & 0x3f
ToSixBits(color) == color % 64

\* a conversion that moves the colour to the top six bits: color << 2
ToTopSix(color) == (color * 4) % 256

\* the conversion of the colour argument to the unsigned char that is stored
ToByte(color) == color % 256

\* bitwise or of two naturals
RECURSIVE BitOr(_, _)
BitOr(a, b) ==
    IF a = 0 THEN b
    ELSE IF b = 0 THEN a
    ELSE (IF a % 2 = 1 \/ b % 2 = 1 THEN 1 ELSE 0) + (2 * BitOr(a \div 2, b \div 2))

\* a store that ors into the byte: vga_data_array[pixel] |= color;
StorePixelOr(array, pixel, color) ==
    [array EXCEPT ![pixel] = BitOr(@, ToByte(color))]

\* a store at half the index: vga_data_array[pixel >> 1] = color;
StorePixelHalfIndex(array, pixel, color) ==
    [array EXCEPT ![pixel \div 2] = ToByte(color)]

\* a store of two bytes: *(uint16_t *)&vga_data_array[pixel] = color;
StorePixelHalfWord(array, pixel, color) ==
    [i \in DOMAIN array |->
        IF i = pixel THEN ToByte(color)
        ELSE IF i = pixel + 1 THEN 0
        ELSE array[i]]

\* vga_data_array[pixel] = color;
StorePixel(array, pixel, color) ==
    [array EXCEPT ![pixel] = ToByte(color)]

(* ------------------------------------------------------------------ *)
(* Addresses, DMA channels and PIO state machines                      *)
(* ------------------------------------------------------------------ *)
Addr(region, off) == [region |-> region, off |-> off]
NullAddr == Addr("none", 0)

\* dma_channel_get_default_config(channel)
DefaultConfig(channel) ==
    [size |-> 32, incr_read |-> TRUE, incr_write |-> FALSE,
     dreq |-> "DREQ_FORCE", chain_to |-> channel]

\* c0 without the read increment
Config0NoIncrement ==
    [DefaultConfig(rgb_chan_0) EXCEPT !.size = 8,
                                      !.incr_read = FALSE,
                                      !.incr_write = FALSE,
                                      !.dreq = "DREQ_PIO0_TX2",
                                      !.chain_to = rgb_chan_1]

\* the configuration c0 of channel 0
Config0 ==
    [DefaultConfig(rgb_chan_0) EXCEPT !.size = 8,
                                      !.incr_read = TRUE,
                                      !.incr_write = FALSE,
                                      !.dreq = "DREQ_PIO0_TX2",
                                      !.chain_to = rgb_chan_1]

\* c1 with the read increment left on
Config1ReadIncrement ==
    [DefaultConfig(rgb_chan_1) EXCEPT !.size = 32,
                                      !.incr_write = FALSE,
                                      !.chain_to = rgb_chan_0]

\* c1 without the chain back to channel 0
Config1NoChain ==
    [DefaultConfig(rgb_chan_1) EXCEPT !.size = 32,
                                      !.incr_read = FALSE,
                                      !.incr_write = FALSE]

\* the configuration c1 of channel 1
Config1 ==
    [DefaultConfig(rgb_chan_1) EXCEPT !.size = 32,
                                      !.incr_read = FALSE,
                                      !.incr_write = FALSE,
                                      !.chain_to = rgb_chan_0]

\* the arguments of dma_channel_configure with read and write address swapped
Chan0WriteAddrSwapped == Addr("vga_data_array", 0)

\* &pio->txf[rgb_sm], the write address of channel 0
Chan0WriteAddr == Addr("txf", rgb_sm)

\* &vga_data_array, the initial read address of channel 0
Chan0ReadAddr == Addr("vga_data_array", 0)

\* a transfer count one more than the length of the array
Chan0CountOneMore == FrameTxCount + 1

\* TXCOUNT, the number of transfers of channel 0
Chan0Count == FrameTxCount

\* a channel that has not been configured
ResetChannel(channel) ==
    [cfg |-> DefaultConfig(channel), read_addr |-> NullAddr,
     write_addr |-> NullAddr, trans_count |-> 0, reload |-> 0,
     busy |-> FALSE, configured |-> FALSE]

\* dma_channel_configure(channel, config, write_addr, read_addr, count, trigger)
dma_channel_configure(d, channel, config, waddr, raddr, count, trigger) ==
    [d EXCEPT ![channel] =
        [cfg |-> config, read_addr |-> raddr, write_addr |-> waddr,
         trans_count |-> count, reload |-> count,
         busy |-> trigger, configured |-> TRUE]]

\* a trigger (dma_start_channel_mask, or the chain of a channel that
\* completed): the channel reloads its transfer count and becomes busy; a
\* trigger of a busy channel is ignored
Trigger(d, channel) ==
    IF d[channel].busy
    THEN d
    ELSE [d EXCEPT ![channel].busy = TRUE,
                   ![channel].trans_count = d[channel].reload]

\* the value a DMA read of an address returns: a byte of the pixel array, or
\* the word held by address_pointer; -1 stands for a byte read outside the
\* array, NullAddr for a word read past address_pointer
Load(a) ==
    CASE a.region = "vga_data_array" ->
            IF a.off \in DOMAIN vga_data_array THEN vga_data_array[a.off] ELSE -1
      [] a.region = "address_pointer" ->
            IF a.off = 0 THEN address_pointer ELSE NullAddr
      [] OTHER -> -1

\* the data request that paces a channel
Dreq(channel) ==
    IF dma[channel].cfg.dreq = "DREQ_PIO0_TX2"
    THEN Len(txf[rgb_sm]) < FifoDepth
    ELSE TRUE

\* pio_enable_sm_mask_in_sync(pio, mask)
pio_enable_sm_mask_in_sync(enabled, mask) ==
    [sm \in StateMachines |-> enabled[sm] \/ sm \in mask]

\* a mask of the two sync machines only
StartMaskSyncOnly == {hsync_sm, vsync_sm}

\* the mask main passes: hsync_sm, vsync_sm and rgb_sm
StartMask == {hsync_sm, vsync_sm, rgb_sm}

NoCall == [x |-> 0, y |-> 0, color |-> 0, pixel |-> -1]
\* the watch: no write is watched (pixel -1), or the observer is off (pixel -2)
NoWatch == [pixel |-> -1, color |-> 0, since |-> 0]
WatchOff == [pixel |-> -2, color |-> 0, since |-> 0]

\* main with the DMA started before the state machines
MainOrderDmaFirst ==
    << "configure_rgb_chan_0", "configure_rgb_chan_1",
       "put_hsync", "put_vsync", "put_rgb",
       "dma_start", "enable_sm", "loop" >>

\* main with the periods put before the DMA channels are configured
MainOrderPutFirst ==
    << "put_hsync", "put_vsync", "put_rgb",
       "configure_rgb_chan_0", "configure_rgb_chan_1",
       "enable_sm", "dma_start", "loop" >>

\* the statements of main after the PIO programs are loaded, in program order
MainOrder ==
    << "configure_rgb_chan_0", "configure_rgb_chan_1",
       "put_hsync", "put_vsync", "put_rgb",
       "enable_sm", "dma_start", "loop" >>

\* the statement that follows step in main
After(step) ==
    LET i == CHOOSE k \in 1 .. Len(MainOrder) : MainOrder[k] = step
    IN  IF i < Len(MainOrder) THEN MainOrder[i + 1] ELSE step

\* an address one byte into the array: &vga_data_array[1]
RestartAddressOne == Addr("vga_data_array", 1)

\* char* address_pointer = &vga_data_array[0];
RestartAddress == Addr("vga_data_array", 0)

\* an array that is not zeroed at start
InitialArrayStale == [i \in 0 .. (FrameTxCount - 1) |-> 21]

\* unsigned char vga_data_array[TXCOUNT]: static storage, all 0
InitialArray == [i \in 0 .. (FrameTxCount - 1) |-> 0]

\* the memory and the peripherals when main starts: vga_data_array is all
\* 0, address_pointer holds &vga_data_array[0], nothing is configured
InitMachine ==
    /\ vga_data_array = InitialArray
    /\ address_pointer = RestartAddress
    /\ dma = [ch \in Channels |-> ResetChannel(ch)]
    /\ txf = [sm \in StateMachines |-> << >>]
    /\ sm_enabled = [sm \in StateMachines |-> FALSE]
    /\ sm_count = [sm \in StateMachines |-> -1]
    /\ nwrites = 0
    /\ nevents = 0
    /\ lastRead = -1

Init ==
    /\ pc = MainOrder[1]
    /\ InitMachine
    /\ pix = NoCall
    /\ watch = WatchOff

(* ------------------------------------------------------------------ *)
(* main                                                                *)
(* ------------------------------------------------------------------ *)
Ghosts == <<nwrites, nevents, lastRead, pix, watch>>

\* dma_channel_configure(rgb_chan_0, &c0, &pio->txf[rgb_sm], &vga_data_array, TXCOUNT, false)
ConfigureChan0 ==
    /\ pc = "configure_rgb_chan_0"
    /\ dma' = dma_channel_configure(dma, rgb_chan_0, Config0,
                                    Chan0WriteAddr, Chan0ReadAddr,
                                    Chan0Count, FALSE)
    /\ pc' = After(pc)
    /\ UNCHANGED <<vga_data_array, address_pointer, txf, sm_enabled, sm_count, Ghosts>>

\* dma_channel_configure(rgb_chan_1, &c1, &dma_hw->ch[rgb_chan_0].read_addr, &address_pointer, 1, false)
ConfigureChan1 ==
    /\ pc = "configure_rgb_chan_1"
    /\ dma' = dma_channel_configure(dma, rgb_chan_1, Config1,
                                    Addr("dma_read_addr", rgb_chan_0),
                                    Addr("address_pointer", 0),
                                    1, FALSE)
    /\ pc' = After(pc)
    /\ UNCHANGED <<vga_data_array, address_pointer, txf, sm_enabled, sm_count, Ghosts>>

\* pio_sm_put_blocking(pio, sm, data): waits while the TX FIFO is full
pio_sm_put_blocking(step, sm, data) ==
    /\ pc = step
    /\ Len(txf[sm]) < FifoDepth
    /\ txf' = [txf EXCEPT ![sm] = Append(@, data)]
    /\ pc' = After(pc)
    /\ UNCHANGED <<vga_data_array, address_pointer, dma, sm_enabled, sm_count, Ghosts>>

PutHsync == pio_sm_put_blocking("put_hsync", hsync_sm, H_ACTIVE)

PutVsync == pio_sm_put_blocking("put_vsync", vsync_sm, V_ACTIVE)

PutRgb == pio_sm_put_blocking("put_rgb", rgb_sm, RGB_ACTIVE)

\* pio_enable_sm_mask_in_sync(pio, (1u << hsync_sm) | (1u << vsync_sm) | (1u << rgb_sm))
EnableSm ==
    /\ pc = "enable_sm"
    /\ sm_enabled' = pio_enable_sm_mask_in_sync(sm_enabled, StartMask)
    /\ pc' = After(pc)
    /\ UNCHANGED <<vga_data_array, address_pointer, dma, txf, sm_count, Ghosts>>

\* dma_start_channel_mask(1u << rgb_chan_0)
DmaStart ==
    /\ pc = "dma_start"
    /\ dma' = Trigger(dma, rgb_chan_0)
    /\ pc' = After(pc)
    /\ UNCHANGED <<vga_data_array, address_pointer, txf, sm_enabled, sm_count, Ghosts>>

\* the write a call of drawPixel starts to watch: any write when none is
\* watched, and a write to the watched pixel; a write to another pixel leaves
\* the watch on the earlier write, which it does not change
Watched(pixel, color) ==
    IF watch.pixel = -1 \/ (watch.pixel >= 0 /\ watch.pixel = pixel)
    THEN [pixel |-> pixel, color |-> ToByte(color), since |-> 0]
    ELSE watch

\* a call drawPixel(x, y, color) of the loop of main
drawPixel(x, y, color) ==
    LET pixel == PixelOf(x, y, FrameXLimit, FrameYLimit, FrameStride)
    IN  /\ pc = "loop"
        /\ nwrites < MaxWrites
        /\ vga_data_array' = StorePixel(vga_data_array, pixel, color)
        /\ nwrites' = nwrites + 1
        /\ watch' = Watched(pixel, color)
        /\ UNCHANGED <<pc, address_pointer, dma, txf, sm_enabled, sm_count,
                       nevents, lastRead, pix>>

DrawPixel ==
    \E xy \in XYArgs, color \in ColorArgs : drawPixel(xy[1], xy[2], color)

(* ------------------------------------------------------------------ *)
(* The hardware: DMA transfers and the state machines' pulls           *)
(* ------------------------------------------------------------------ *)
\* the watch after a consumption event that read index idx and emitted
\* value: the watch ends when the watched write is emitted, and until then
\* counts the consumption events since the write
Observed(idx, value) ==
    IF watch.pixel < 0
    THEN watch
    ELSE IF idx = watch.pixel /\ value = watch.color
         THEN NoWatch
         ELSE [watch EXCEPT !.since = IF @ < FrameTxCount THEN @ + 1 ELSE @]

\* one transfer of a busy channel: read at read_addr, write at write_addr,
\* advance the read address if it increments, count down; the transfer that
\* brings the count to 0 ends the channel and triggers the channel it chains to
DmaTransfer(channel) ==
    LET c == dma[channel]
        data == Load(c.read_addr)
        last == c.trans_count = 1
        self == [c EXCEPT
                   !.read_addr = IF c.cfg.incr_read
                                 THEN Addr(@.region, @.off + 1) ELSE @,
                   !.trans_count = @ - 1,
                   !.busy = ~last]
        d1 == [dma EXCEPT ![channel] = self]
        d2 == IF c.write_addr.region = "dma_read_addr"
              THEN [d1 EXCEPT ![c.write_addr.off].read_addr = data]
              ELSE d1
        d3 == IF last /\ c.cfg.chain_to # channel
              THEN Trigger(d2, c.cfg.chain_to)
              ELSE d2
        toFifo == c.write_addr.region = "txf"
        toArray == c.write_addr.region = "vga_data_array"
    IN  /\ c.busy
        /\ c.trans_count > 0
        /\ Dreq(channel)
        /\ dma' = d3
        /\ txf' = IF toFifo
                  THEN [txf EXCEPT ![c.write_addr.off] = Append(@, data)]
                  ELSE txf
        /\ nevents' = IF toFifo THEN (nevents + 1) % FrameTxCount ELSE nevents
        /\ lastRead' = IF toFifo THEN c.read_addr.off ELSE lastRead
        /\ watch' = IF toFifo THEN Observed(c.read_addr.off, data) ELSE watch
        /\ vga_data_array' = IF toArray /\ c.write_addr.off \in DOMAIN vga_data_array
                             THEN [vga_data_array EXCEPT ![c.write_addr.off] = data]
                             ELSE vga_data_array
        /\ UNCHANGED <<pc, address_pointer, sm_enabled, sm_count, nwrites, pix>>

\* channel 0 moves one byte of vga_data_array to the TX FIFO of rgb_sm
Streamer == DmaTransfer(rgb_chan_0)

\* channel 1 moves address_pointer to channel 0's read address
Rearmer == DmaTransfer(rgb_chan_1)

\* the state machines run in lock step from the enable on, and the first
\* instruction of each is the pull of its counter's period: every running
\* machine that has not loaded its period pulls it, in one step
Pulls(sm) == sm_enabled[sm] /\ sm_count[sm] = -1 /\ Len(txf[sm]) > 0

LoadPeriods ==
    /\ \E sm \in StateMachines : Pulls(sm)
    /\ sm_count' = [sm \in StateMachines |->
                      IF Pulls(sm) THEN Head(txf[sm]) ELSE sm_count[sm]]
    /\ txf' = [sm \in StateMachines |->
                      IF Pulls(sm) THEN Tail(txf[sm]) ELSE txf[sm]]
    /\ UNCHANGED <<pc, vga_data_array, address_pointer, dma, sm_enabled, Ghosts>>

\* rgb_sm, once it has its period, pulls one pixel of its TX FIFO
PullPixel ==
    /\ sm_enabled[rgb_sm]
    /\ sm_count[rgb_sm] # -1
    /\ Len(txf[rgb_sm]) > 0
    /\ txf' = [txf EXCEPT ![rgb_sm] = Tail(@)]
    /\ UNCHANGED <<pc, vga_data_array, address_pointer, dma, sm_enabled, sm_count, Ghosts>>

Next ==
    \/ ConfigureChan0
    \/ ConfigureChan1
    \/ PutHsync
    \/ PutVsync
    \/ PutRgb
    \/ EnableSm
    \/ DmaStart
    \/ DrawPixel
    \/ Streamer
    \/ Rearmer
    \/ LoadPeriods
    \/ PullPixel

Spec == Init /\ [][Next]_vars

\* the same program with the observer of writes on
InitWatch ==
    /\ pc = MainOrder[1]
    /\ InitMachine
    /\ pix = NoCall
    /\ watch = NoWatch

SpecWatch == InitWatch /\ [][Next]_vars

\* the same program with the CPU and the peripherals never stopping: main
\* runs on, a busy DMA channel whose data request is up transfers, and a
\* running state machine with a word in its TX FIFO pulls; the calls of
\* drawPixel are left to the application
Fairness ==
    /\ WF_vars(ConfigureChan0 \/ ConfigureChan1 \/ PutHsync \/ PutVsync \/ PutRgb
                  \/ EnableSm \/ DmaStart)
    /\ WF_vars(Streamer)
    /\ WF_vars(Rearmer)
    /\ WF_vars(LoadPeriods)
    /\ WF_vars(PullPixel)

SpecFair == Init /\ [][Next]_vars /\ Fairness

(* ------------------------------------------------------------------ *)
(* drawPixel's range checks and index with the literals of the source  *)
(* ------------------------------------------------------------------ *)
InitPix ==
    /\ pc = "pix_call"
    /\ InitMachine
    /\ \E x \in XArgsPix, y \in YArgsPix, color \in ColorArgsPix :
          pix = [x |-> x, y |-> y, color |-> color, pixel |-> -1]
    /\ watch = WatchOff

\* the range checks and the index expression of drawPixel(pix.x, pix.y, _)
PixCall ==
    /\ pc = "pix_call"
    /\ pix' = [pix EXCEPT !.pixel = PixelOf(pix.x, pix.y, X_LIMIT, Y_LIMIT, ROW_STRIDE)]
    /\ pc' = "pix_done"
    /\ UNCHANGED <<vga_data_array, address_pointer, dma, txf, sm_enabled, sm_count,
                   nwrites, nevents, lastRead, watch>>

NextPix == PixCall

SpecPix == InitPix /\ [][NextPix]_vars

(* ------------------------------------------------------------------ *)
(* Properties                                                          *)
(* ------------------------------------------------------------------ *)
InFrame == (0 .. FrameXLimit) \X (0 .. FrameYLimit)
SixBit == 0 .. 63
Period(sm) ==
    IF sm = hsync_sm THEN H_ACTIVE ELSE IF sm = vsync_sm THEN V_ACTIVE ELSE RGB_ACTIVE
\* the machine's period is in its TX FIFO or in its counter
PeriodLoaded(sm) ==
    \/ sm_count[sm] = Period(sm)
    \/ (sm_count[sm] = -1 /\ Len(txf[sm]) > 0 /\ Head(txf[sm]) = Period(sm))
Dirty == {i \in DOMAIN vga_data_array : vga_data_array[i] # 0}
\* the value in [0, hi] nearest to v
Nearest(v, hi) == IF v < 0 THEN 0 ELSE IF v > hi THEN hi ELSE v

\* C1: the consumption events of channel 0 read the array as a ring: with
\* nevents the number of events so far modulo the length of the array, the
\* latest event (event number nevents - 1) read index (nevents - 1) modulo
\* the length, so the event after a whole pass reads index 0 again.
C1_Ring ==
    lastRead # -1 => lastRead = (nevents + FrameTxCount - 1) % FrameTxCount

\* a whole pass has been read and channel 1 has restarted channel 0 at index 0
C1_Witness ==
    /\ lastRead = FrameTxCount - 1
    /\ nevents = 0
    /\ dma[rgb_chan_0].busy
    /\ dma[rgb_chan_0].read_addr = Addr("vga_data_array", 0)

\* C2: for all int x, y the index drawPixel computes is in [0, TXCOUNT); it is
\* 640 * y' + x' with x' the value of [0, RGB_ACTIVE] nearest to x and y' the
\* value of [0, V_ACTIVE] nearest to y, so 640 * y + x for (x, y) in range.
C2_ClampedIndex ==
    pc = "pix_done" =>
        /\ pix.pixel \in 0 .. (TXCOUNT - 1)
        /\ pix.pixel = ((RGB_ACTIVE + 1) * Nearest(pix.y, V_ACTIVE)) + Nearest(pix.x, RGB_ACTIVE)

\* drawPixel(INT_MAX, INT_MIN, _) computed the index of the top right pixel
C2_Witness ==
    /\ pc = "pix_done"
    /\ pix.x = INT_MAX
    /\ pix.y = INT_MIN
    /\ pix.pixel = RGB_ACTIVE

\* C3: a call drawPixel(x, y, c) with (x, y) in the frame and c a 6-bit
\* colour leaves exactly c in the storage unit at index width * y + x.
C3_RoundTrip ==
    [][\A xy \in InFrame, c \in ColorArgs \cap SixBit :
          drawPixel(xy[1], xy[2], c)
              => vga_data_array'[(FrameW * xy[2]) + xy[1]] = c]_vars

\* the last pixel of the frame holds a 6-bit colour that was drawn
C3_Witness ==
    /\ nwrites >= 1
    /\ vga_data_array[(FrameW * FrameYLimit) + FrameXLimit] = 21

\* C4 as stated: drawPixel stores the colour masked to 6 bits, c mod 64, so
\* every stored value is in 0 .. 63.
C4_MaskedToSixBits ==
    [][\A xy \in XYArgs, c \in ColorArgs :
          drawPixel(xy[1], xy[2], c)
              => LET pixel == PixelOf(xy[1], xy[2], FrameXLimit, FrameYLimit, FrameStride)
                 IN  /\ vga_data_array'[pixel] = c % 64
                     /\ \A i \in DOMAIN vga_data_array : vga_data_array'[i] \in SixBit]_vars

\* C4 amended: drawPixel stores the colour argument c in 0 .. 255 unchanged
\* (all 8 bits of the byte, no mask), so a stored value is in 0 .. 63 only if
\* the argument was.
C4_StoredUnmasked ==
    [][\A xy \in XYArgs, c \in ColorArgs :
          drawPixel(xy[1], xy[2], c)
              => LET pixel == PixelOf(xy[1], xy[2], FrameXLimit, FrameYLimit, FrameStride)
                 IN  /\ vga_data_array'[pixel] = c
                     /\ (vga_data_array'[pixel] \in SixBit <=> c \in SixBit)]_vars

\* a pixel holds 255, a colour of more than 6 bits
C4_Witness ==
    \E i \in DOMAIN vga_data_array : vga_data_array[i] = 255

\* C5: a write that no later write to the same pixel replaces is emitted by
\* channel 0 within FrameTxCount consumption events: the count of the events
\* since a watched write that did not emit it stays below FrameTxCount.
C5_ShownWithinOnePass ==
    watch.pixel >= 0 => watch.since < FrameTxCount

\* a write to the pixel channel 0 had just read: shown by the last event of
\* the bound and not before
C5_Witness ==
    /\ watch.pixel >= 0
    /\ watch.since = FrameTxCount - 1
    /\ dma[rgb_chan_0].busy
    /\ dma[rgb_chan_0].read_addr.off = watch.pixel

\* C6: once channel 0 has been started, exactly one of channel 0 and
\* channel 1 is busy.
C6_ExactlyOneBusy ==
    pc = "loop" => (dma[rgb_chan_0].busy <=> ~dma[rgb_chan_1].busy)

\* channel 0 has ended its pass and channel 1 is about to restart it
C6_Witness ==
    /\ pc = "loop"
    /\ dma[rgb_chan_1].busy
    /\ ~dma[rgb_chan_0].busy

\* C7: a state machine runs only if all three periods have been put, and a
\* DMA channel is busy only if all three state machines run.
C7_StartPrecedence ==
    /\ (\E sm \in StateMachines : sm_enabled[sm])
          => \A sm \in StateMachines : PeriodLoaded(sm)
    /\ (\E ch \in Channels : dma[ch].busy)
          => \A sm \in StateMachines : sm_enabled[sm]

\* channel 0 streams while the three machines run with their periods
C7_Witness ==
    /\ dma[rgb_chan_0].busy
    /\ lastRead # -1
    /\ \A sm \in StateMachines : sm_enabled[sm] /\ sm_count[sm] = Period(sm)

\* C8 as stated: the periods are put before channel 0 and channel 1 are
\* configured (then channel 0, channel 1, the enable, the DMA start).
C8_PeriodsBeforeChannels ==
    /\ (\E i \in DOMAIN vga_data_array : vga_data_array[i] # 0) => pc = "loop"
    /\ dma[rgb_chan_0].configured => \A sm \in StateMachines : PeriodLoaded(sm)
    /\ dma[rgb_chan_1].configured => dma[rgb_chan_0].configured
    /\ (\E sm \in StateMachines : sm_enabled[sm]) => dma[rgb_chan_1].configured
    /\ (\E ch \in Channels : dma[ch].busy) => \A sm \in StateMachines : sm_enabled[sm]

\* C8 amended: the order of main is array zeroed, channel 0 configured,
\* channel 1 configured, periods put, machines enabled, channel 0 started.
C8_ChannelsBeforePeriods ==
    /\ (\E i \in DOMAIN vga_data_array : vga_data_array[i] # 0) => pc = "loop"
    /\ dma[rgb_chan_1].configured => dma[rgb_chan_0].configured
    /\ (\E sm \in StateMachines : PeriodLoaded(sm)) => dma[rgb_chan_1].configured
    /\ (\E sm \in StateMachines : sm_enabled[sm])
          => \A sm \in StateMachines : PeriodLoaded(sm)
    /\ (\E ch \in Channels : dma[ch].busy) => \A sm \in StateMachines : sm_enabled[sm]

\* both channels are configured and no period has been put
C8_Witness ==
    /\ dma[rgb_chan_0].configured
    /\ dma[rgb_chan_1].configured
    /\ \A sm \in StateMachines : ~PeriodLoaded(sm)

\* C9: the three state machines run all or none.
C9_AllOrNone ==
    \/ \A sm \in StateMachines : sm_enabled[sm]
    \/ \A sm \in StateMachines : ~sm_enabled[sm]

\* the enable has happened: all three run, none has pulled yet
C9_Witness ==
    /\ \A sm \in StateMachines : sm_enabled[sm]
    /\ \A sm \in StateMachines : sm_count[sm] = -1

\* C10: a call drawPixel(x, y, c2) on a pixel that holds an earlier colour c1
\* leaves exactly c2 there, which is c1 or c2 only when that is c2, changes no
\* other pixel, and changes nothing when c1 = c2.
C10_Overwrite ==
    [][\A xy \in InFrame, c2 \in ColorArgs \cap SixBit :
          LET pixel == (FrameW * xy[2]) + xy[1]
              c1 == vga_data_array[pixel]
          IN  (drawPixel(xy[1], xy[2], c2) /\ c1 \in SixBit \ {0})
                 => /\ vga_data_array'[pixel] = c2
                    /\ (BitOr(c1, c2) # c2 => vga_data_array'[pixel] # BitOr(c1, c2))
                    /\ (c1 = c2 => vga_data_array' = vga_data_array)]_vars

\* two calls drew the same pixel, 21 last
C10_Witness ==
    /\ nwrites = 2
    /\ \E i \in DOMAIN vga_data_array : Dirty = {i} /\ vga_data_array[i] = 21

\* C11: a call of drawPixel, at any point of a pass, changes the byte of one
\* pixel of the array and nothing else: no other byte, not the length of the
\* array, not the DMA channels, the FIFOs or the state machines.
C11_OnlyTargetPixel ==
    [][nwrites' # nwrites =>
          /\ DOMAIN vga_data_array' = DOMAIN vga_data_array
          /\ \E pixel \in DOMAIN vga_data_array :
                \A i \in DOMAIN vga_data_array \ {pixel} :
                    vga_data_array'[i] = vga_data_array[i]
          /\ dma' = dma
          /\ address_pointer' = address_pointer
          /\ txf' = txf
          /\ sm_enabled' = sm_enabled
          /\ sm_count' = sm_count]_vars

\* two pixels were drawn and both are kept, with channel 0 in mid pass
C11_Witness ==
    /\ Cardinality(Dirty) = 2
    /\ dma[rgb_chan_0].busy
    /\ dma[rgb_chan_0].read_addr.off \in 1 .. (FrameTxCount - 1)

\* C12: with the CPU and the peripherals never stopping, every index of the
\* array is read by a consumption event infinitely often, whatever drawPixel
\* calls are made, and after the start never are both channels idle.
C12_RunsForever ==
    /\ \A i \in 0 .. (FrameTxCount - 1) : []<>(lastRead = i)
    /\ [](pc = "loop" => \E ch \in Channels : dma[ch].busy)

\* all the writes were made and channel 0 has ended a pass
C12_Witness ==
    /\ nwrites = MaxWrites
    /\ lastRead = FrameTxCount - 1
    /\ dma[rgb_chan_1].busy

\* the little-endian 32-bit word of bytes 0 .. 3 of the array, as its top
\* six bits and its other 26 bits
TopSixOfWord(array) == array[3] \div 4
RestOfWord(array) ==
    array[0] + (256 * array[1]) + (65536 * array[2]) + (16777216 * (array[3] % 4))

C14_RearmOncePerPass ==
    /\ address_pointer = Addr("vga_data_array", 0)
    /\ dma[rgb_chan_1].configured
          => dma[rgb_chan_1].read_addr = Addr("address_pointer", 0)
    /\ dma[rgb_chan_1].busy
          => /\ ~dma[rgb_chan_0].busy
             /\ dma[rgb_chan_0].trans_count = 0
             /\ dma[rgb_chan_1].trans_count = 1
    /\ (dma[rgb_chan_0].busy /\ lastRead = FrameTxCount - 1)
          => /\ dma[rgb_chan_0].read_addr = Addr("vga_data_array", 0)
             /\ dma[rgb_chan_0].trans_count = FrameTxCount
             /\ ~dma[rgb_chan_1].busy
             /\ dma[rgb_chan_1].trans_count = 0

\* channel 1 has made its transfer after a pass that followed the writes
C14_Witness ==
    /\ nwrites = MaxWrites
    /\ lastRead = FrameTxCount - 1
    /\ dma[rgb_chan_0].busy
    /\ dma[rgb_chan_0].trans_count = FrameTxCount
    /\ dma[rgb_chan_1].trans_count = 0

\* C15: a consumption event reads an index of the array and puts in the TX
\* FIFO the byte the array holds there at that moment: 0 or a colour drawn.
C15_EmitsStoredValue ==
    [][nevents' # nevents =>
          /\ lastRead' \in DOMAIN vga_data_array
          /\ Len(txf'[rgb_sm]) > 0
          /\ txf'[rgb_sm][Len(txf'[rgb_sm])] = vga_data_array[lastRead']
          /\ txf'[rgb_sm][Len(txf'[rgb_sm])] \in {0} \cup ColorArgs]_vars

\* the FIFO holds a drawn colour that the array no longer holds there: the
\* pixel was drawn again after channel 0 read it
C15_Witness ==
    /\ sm_count[rgb_sm] # -1
    /\ Len(txf[rgb_sm]) > 0
    /\ lastRead \in DOMAIN vga_data_array
    /\ txf[rgb_sm][Len(txf[rgb_sm])] = 21
    /\ vga_data_array[lastRead] = 63

\* C16: the array changes only in a call of drawPixel: no DMA transfer
\* changes it, channel 0 writes to the TX FIFO of rgb_sm and channel 1 to
\* the read address of channel 0.
C16_OnlyDrawPixelWrites ==
    [][/\ vga_data_array' # vga_data_array => (nwrites' = nwrites + 1 /\ dma' = dma)
       /\ dma[rgb_chan_0].configured => dma[rgb_chan_0].write_addr = Addr("txf", rgb_sm)
       /\ dma[rgb_chan_1].configured
             => dma[rgb_chan_1].write_addr = Addr("dma_read_addr", rgb_chan_0)]_vars

\* a drawn pixel is still in the array after a whole pass and a restart
C16_Witness ==
    /\ nwrites = 1
    /\ Cardinality(Dirty) = 1
    /\ nevents = 0
    /\ lastRead = FrameTxCount - 1
    /\ dma[rgb_chan_0].busy

\* the pixels in the TX FIFO of rgb_sm: all its words but the period
PixelsInFifo ==
    IF sm_count[rgb_sm] = -1 /\ Len(txf[rgb_sm]) > 0 /\ Head(txf[rgb_sm]) = RGB_ACTIVE
    THEN Tail(txf[rgb_sm])
    ELSE txf[rgb_sm]

\* C17: the array has FrameTxCount bytes in every state, and until the
\* first call of drawPixel every byte is 0 and every pixel emitted is 0.
C17_BlankConstantLength ==
    /\ DOMAIN vga_data_array = 0 .. (FrameTxCount - 1)
    /\ nwrites = 0 =>
          /\ \A i \in DOMAIN vga_data_array : vga_data_array[i] = 0
          /\ \A k \in 1 .. Len(PixelsInFifo) : PixelsInFifo[k] = 0

\* a whole pass was emitted before the first call of drawPixel
C17_Witness ==
    /\ nwrites = 0
    /\ lastRead = FrameTxCount - 1
    /\ Len(PixelsInFifo) > 0

\* C18: channel 0 reads inside the array: its read address is in
\* [0, FrameTxCount], every index read is in [0, FrameTxCount), and its read
\* offset and its remaining count add up to FrameTxCount.
C18_ReadsInBounds ==
    /\ lastRead \in -1 .. (FrameTxCount - 1)
    /\ dma[rgb_chan_0].configured =>
          /\ dma[rgb_chan_0].read_addr.region = "vga_data_array"
          /\ dma[rgb_chan_0].read_addr.off \in 0 .. FrameTxCount
          /\ dma[rgb_chan_0].read_addr.off + dma[rgb_chan_0].trans_count = FrameTxCount

\* channel 0 has read the last byte: its read address is one past the end
\* and its count is 0
C18_Witness ==
    /\ ~dma[rgb_chan_0].busy
    /\ dma[rgb_chan_0].read_addr.off = FrameTxCount
    /\ dma[rgb_chan_0].trans_count = 0
    /\ lastRead = FrameTxCount - 1

\* every pixel of the 640 x 350 frame has an index in [0, TXCOUNT) that gives
\* back its row and column, and every index in [0, TXCOUNT) is some pixel's
WholeFrameBijection ==
    /\ \A x \in 0 .. RGB_ACTIVE : \A y \in 0 .. V_ACTIVE :
          LET pixel == PixelOf(x, y, X_LIMIT, Y_LIMIT, ROW_STRIDE)
          IN  /\ pixel \in 0 .. (TXCOUNT - 1)
              /\ pixel \div (RGB_ACTIVE + 1) = y
              /\ pixel % (RGB_ACTIVE + 1) = x
    /\ \A pixel \in 0 .. (TXCOUNT - 1) :
          PixelOf(pixel % (RGB_ACTIVE + 1), pixel \div (RGB_ACTIVE + 1),
                  X_LIMIT, Y_LIMIT, ROW_STRIDE) = pixel

====
